---- MODULE Spec2Model ----
(***************************************************************************)
(* A model of the T1DGRS2 scoring pipeline (package t1dgrs2).              *)
(*                                                                         *)
(* Tables (pandas DataFrames) are sequences of records, a column being a   *)
(* record field.  An allele string is the sequence of its characters, so   *)
(* that len() and "+" of the code are Len and \o.  A missing value (NaN)   *)
(* of a string column is the empty sequence, the None of Python is the     *)
(* one-element sequence <<"None">>, and a missing number is NaNRank.       *)
(*                                                                         *)
(* Each function of score.py is one action (generate_grs is three, one per *)
(* table it builds); a specification per function draws the function's     *)
(* inputs in its Init and applies the function.                            *)
(***************************************************************************)
EXTENDS Integers, Sequences, FiniteSets, TLC

VARIABLES
    pc,                  \* where the modelled call stands
    row, A1,             \* _apply_fix_variant_alleles: the merged row, its result
    df_map, df_freq,     \* fix_variant_alleles: mapping file, PLINK --freq report
    df_rdq,              \* the DQ allele ranking file (DQ, RANK)
    df_vmap,             \* fix_variant_alleles: the table it returns
    qscore_profiles,     \* create_dosage_table: the .profile files PLINK wrote
    df_dosage,           \* create_dosage_table: the table it returns
    df_geno,             \* get_geno_call_alleles: the table it returns
    sc_int,              \* generate_grs: the lines of the interaction score file
    df_sc_int,           \* generate_grs: the interaction table, rank-ordered
    sc_dq_plink,         \* generate_grs: path of the DQ-only score file ("" if none)
    df_sc_plink_calc,    \* generate_grs: PLINK's SCORESUM over all variants
    df_sc_dq_plink_calc, \* generate_grs: PLINK's SCORESUM over the DQ variants
    df_scores,           \* generate_grs: the table it returns
    read_ok,             \* generate_grs: whether the files named by paths were read
    df_roc,              \* retrieve_centiles: the ROC curve file
    df_scores_upd,       \* retrieve_centiles: the table after interpolate/bfill/ffill
    disk,                \* the files below the file system root
    dirpath, pattern,    \* delete_files_within: its arguments
    walked,              \* delete_files_within: the files os.walk yields
    runs                 \* the pipeline runs: stage, output prefix, exit status

vars == <<pc, row, A1, df_map, df_freq, df_rdq, df_vmap, qscore_profiles,
          df_dosage, df_geno, sc_int, df_sc_int, sc_dq_plink,
          df_sc_plink_calc, df_sc_dq_plink_calc, df_scores, read_ok,
          df_roc, df_scores_upd, disk, dirpath, pattern, walked, runs>>

applyVars == <<row, A1>>
fixVars == <<df_map, df_freq, df_vmap>>
dosageVars == <<qscore_profiles, df_dosage>>
grsVars == <<sc_int, df_sc_int, sc_dq_plink, df_sc_plink_calc, df_sc_dq_plink_calc,
             df_scores, read_ok>>
metricsVars == <<df_roc, df_scores_upd>>
fileVars == <<disk, dirpath, pattern, walked>>
runVars == <<runs>>

\* The value of a variable that the specification at hand does not use.
Unused == <<>>

(***************************************************************************)
(* Values                                                                  *)
(***************************************************************************)
\* Bound: the longest allele string drawn.
MaxAlleleLen == 3

Nucleotides == {"A", "C"}

NaN == <<>>
None == <<"None">>
isna(v) == v = NaN

\* The non-empty strings over chars of length at most n.
Strings(chars, n) == UNION {[1..k -> chars] : k \in 1..n}

\* What an allele column of the mapping file or of the .frq report holds: a
\* nucleotide sequence, "-" (a deletion) or "0" (PLINK: no such allele seen).
AlleleStrings == Strings(Nucleotides, MaxAlleleLen) \cup {<<"-">>, <<"0">>}

(***************************************************************************)
(* score.py: _apply_fix_variant_alleles                                    *)
(***************************************************************************)
\* min(a, b, key=len): the first of the two unless the second is shorter.
min_len(a, b) == IF Len(b) < Len(a) THEN b ELSE a

\* Mutant: the longer indel is rebuilt with its two parts in the wrong order.
_apply_fix_variant_alleles_concat_reversed(r) ==
    IF isna(r.A1_freq) \/ r.A1_map \in {r.A1_freq, r.A2} THEN r.A1_map
    ELSE IF r.A1_map = <<"-">> /\ r.A1_freq = <<"0">> /\ Len(r.A2) = 1 THEN r.A2
    ELSE IF Len(r.A2) > Len(r.A1_map) /\ Len(r.A1_map) > 1 THEN r.A2
    ELSE IF Len(r.A1_map) > 1 /\ Len(r.A2) = 1 THEN
        IF r.A2 = <<"-">> THEN r.A1_map
        ELSE IF r.A1_freq = <<"0">> THEN r.A1_map \o r.A2
        ELSE r.A1_freq
    ELSE IF r.A1_map # <<"-">> /\ r.A1_freq = <<"0">> THEN r.A1_map
    ELSE IF r.A1_map = <<"-">> /\ r.A1_freq # <<"0">> THEN min_len(r.A1_freq, r.A2)
    ELSE IF r.A1_map = <<"-">> /\ r.A1_freq = <<"0">> THEN r.A1_map
    ELSE None

_apply_fix_variant_alleles(r) ==
    IF isna(r.A1_freq) \/ r.A1_map \in {r.A1_freq, r.A2} THEN r.A1_map
    ELSE IF r.A1_map = <<"-">> /\ r.A1_freq = <<"0">> /\ Len(r.A2) = 1 THEN r.A2
    ELSE IF Len(r.A2) > Len(r.A1_map) /\ Len(r.A1_map) > 1 THEN r.A2
    ELSE IF Len(r.A1_map) > 1 /\ Len(r.A2) = 1 THEN
        IF r.A2 = <<"-">> THEN r.A1_map
        ELSE IF r.A1_freq = <<"0">> THEN r.A2 \o r.A1_map
        ELSE r.A1_freq
    ELSE IF r.A1_map # <<"-">> /\ r.A1_freq = <<"0">> THEN r.A1_map
    ELSE IF r.A1_map = <<"-">> /\ r.A1_freq # <<"0">> THEN min_len(r.A1_freq, r.A2)
    ELSE IF r.A1_map = <<"-">> /\ r.A1_freq = <<"0">> THEN r.A1_map
    ELSE None

\* A row of the left merge of the mapping file with the .frq report: the columns
\* of the report are NaN when the report has no line for the variant.
MergedRows ==
    [A1_map : AlleleStrings, A1_freq : AlleleStrings, A2 : AlleleStrings]
    \cup [A1_map : AlleleStrings, A1_freq : {NaN}, A2 : {NaN}]

InitApplyFix ==
    /\ pc = "apply"
    /\ row \in MergedRows
    /\ A1 = Unused
    /\ df_map = Unused /\ df_freq = Unused /\ df_rdq = Unused /\ df_vmap = Unused
    /\ qscore_profiles = Unused /\ df_dosage = Unused /\ df_geno = Unused
    /\ sc_int = Unused /\ df_sc_int = Unused /\ sc_dq_plink = Unused
    /\ df_sc_plink_calc = Unused
    /\ df_sc_dq_plink_calc = Unused /\ df_scores = Unused
    /\ read_ok = Unused /\ df_roc = Unused /\ df_scores_upd = Unused
    /\ disk = Unused /\ dirpath = Unused /\ pattern = Unused /\ walked = Unused
    /\ runs = Unused

ApplyFixVariantAlleles ==
    /\ pc = "apply"
    /\ A1' = _apply_fix_variant_alleles(row)
    /\ pc' = "applied"
    /\ UNCHANGED <<row, fixVars, df_rdq, dosageVars, df_geno, grsVars,
                   metricsVars, fileVars, runVars>>

NextApplyFix == ApplyFixVariantAlleles

SpecApplyFix == InitApplyFix /\ [][NextApplyFix]_vars

(***************************************************************************)
(* The decision order of the allele reconciliation, rule by rule            *)
(***************************************************************************)
\* The condition of rule k (1..7) on a merged row, taken alone.
RuleCond(k, r) ==
    CASE k = 1 -> isna(r.A1_freq) \/ r.A1_map = r.A1_freq \/ r.A1_map = r.A2
      [] k = 2 -> r.A1_map = <<"-">> /\ r.A1_freq = <<"0">> /\ Len(r.A2) = 1
      [] k = 3 -> Len(r.A2) > Len(r.A1_map) /\ Len(r.A1_map) > 1
      [] k = 4 -> Len(r.A1_map) > 1 /\ Len(r.A2) = 1
      [] k = 5 -> r.A1_map # <<"-">> /\ r.A1_freq = <<"0">>
      [] k = 6 -> r.A1_map = <<"-">> /\ r.A1_freq # <<"0">>
      [] k = 7 -> r.A1_map = <<"-">> /\ r.A1_freq = <<"0">>

\* The alleles rule k allows as the resolved allele (rule 6 names "the shorter"
\* of the two observed alleles: either of them when they are equally long).
RuleResolved(k, r) ==
    CASE k = 1 -> {r.A1_map}
      [] k = 2 -> {r.A2}
      [] k = 3 -> {r.A2}
      [] k = 4 -> {IF r.A2 = <<"-">> THEN r.A1_map
                   ELSE IF r.A1_freq = <<"0">> THEN r.A2 \o r.A1_map
                   ELSE r.A1_freq}
      [] k = 5 -> {r.A1_map}
      [] k = 6 -> {a \in {r.A1_freq, r.A2} :
                      \A b \in {r.A1_freq, r.A2} : Len(a) <= Len(b)}
      [] k = 7 -> {<<"-">>}

\* Rule k is the first of rules 1..7 whose condition the row meets.
FirstMatch(k, r) == RuleCond(k, r) /\ \A j \in 1..(k - 1) : ~RuleCond(j, r)

NoRuleMatches(r) == \A k \in 1..7 : ~RuleCond(k, r)

\* C1: the allele _apply_fix_variant_alleles resolves is the one the first
\* matching rule among rules 1..7 gives, and it is mappingAllele unchanged when
\* the variant has no frequency record or mappingAllele is an observed allele.
C1_ResolvedFollowsRules ==
    pc = "applied" =>
        /\ \A k \in 1..7 : FirstMatch(k, row) => A1 \in RuleResolved(k, row)
        /\ (isna(row.A1_freq) \/ row.A1_map \in {row.A1_freq, row.A2})
               => A1 = row.A1_map

\* C1 witness: rule 4 decides, for a longer indel whose first base is the
\* observed allele, and the resolved allele is the two put together.
C1_Witness ==
    /\ pc = "applied"
    /\ FirstMatch(4, row)
    /\ row.A1_freq = <<"0">> /\ row.A2 = <<"A">> /\ row.A1_map = <<"C", "C">>
    /\ A1 = <<"A", "C", "C">>

(***************************************************************************)
(* score.py: fix_variant_alleles                                           *)
(***************************************************************************)
\* Bound: the number of lines of the mapping file.
MaxVariants == 2
\* Bound: the largest rank the ranking file gives.
MaxRank == 2

\* A RANK that a left merge left empty (NaN in a numeric column).
NaNRank == 0

DQNames == {"DQa", "DQb"}
SNPNames == <<"rs1", "rs2", "rs3">>

\* The sequences over S of length lo..hi.
SeqsOf(S, lo, hi) == UNION {[1..k -> S] : k \in lo..hi}

\* No two lines of ranking table t name the same DQ allele.
UniqueDQ(t) == \A i, j \in 1..Len(t) : t[i].DQ = t[j].DQ => i = j

RECURSIVE Concat(_)
\* The concatenation of a sequence of tables.
Concat(ts) == IF ts = <<>> THEN <<>> ELSE Head(ts) \o Concat(Tail(ts))

\* df_map.merge(df_freq, how="left", on="SNP", suffixes=("_map", "_freq")): the
\* lines of df_map in their order, each once per line of df_freq with its SNP,
\* or once with NaN where df_freq has none.  (CHR, MAF and NCHROBS ride along
\* unread and are left out.)
merge_freq(dmap, dfreq) ==
    Concat([i \in 1..Len(dmap) |->
        LET m == dmap[i]
            fs == SelectSeq(dfreq, LAMBDA f : f.SNP = m.SNP)
        IN  IF fs = <<>>
            THEN <<[ALLELE |-> m.ALLELE, SNP |-> m.SNP, A1_map |-> m.A1,
                    A1_freq |-> NaN, A2 |-> NaN]>>
            ELSE [j \in 1..Len(fs) |->
                    [ALLELE |-> m.ALLELE, SNP |-> m.SNP, A1_map |-> m.A1,
                     A1_freq |-> fs[j].A1, A2 |-> fs[j].A2]]])

\* df_vmap["A1"] = df_vmap.apply(_apply_fix_variant_alleles, axis=1)
apply_fix(t) ==
    [i \in 1..Len(t) |->
        [ALLELE |-> t[i].ALLELE, SNP |-> t[i].SNP, A1_map |-> t[i].A1_map,
         A1_freq |-> t[i].A1_freq, A2 |-> t[i].A2,
         A1 |-> _apply_fix_variant_alleles(t[i])]]

\* .merge(df_rdq, how="left", left_on="ALLELE", right_on="DQ").drop(columns=["DQ"])
merge_rank(t, rdq) ==
    Concat([i \in 1..Len(t) |->
        LET v == t[i]
            rs == SelectSeq(rdq, LAMBDA r : r.DQ = v.ALLELE)
            WithRank(k) ==
                [ALLELE |-> v.ALLELE, SNP |-> v.SNP, A1_map |-> v.A1_map,
                 A1_freq |-> v.A1_freq, A2 |-> v.A2, A1 |-> v.A1, RANK |-> k]
        IN  IF rs = <<>> THEN <<WithRank(NaNRank)>>
            ELSE [j \in 1..Len(rs) |-> WithRank(rs[j].RANK)]])

\* The order of sort_values(by=["RANK"]): ascending, NaN last.
RankBefore(a, b) == a.RANK # NaNRank /\ (b.RANK = NaNRank \/ a.RANK < b.RANK)

RECURSIVE InsertByRank(_, _)
InsertByRank(x, t) ==
    IF t = <<>> THEN <<x>>
    ELSE IF RankBefore(x, Head(t)) THEN <<x>> \o t
    ELSE <<Head(t)>> \o InsertByRank(x, Tail(t))

RECURSIVE sort_values_RANK(_)
\* .sort_values(by=["RANK"]).reset_index(drop=True); lines of equal RANK keep
\* their order (the tables here are far below the size at which numpy's sort
\* stops being an insertion sort).
sort_values_RANK(t) ==
    IF t = <<>> THEN <<>>
    ELSE InsertByRank(t[Len(t)], sort_values_RANK(SubSeq(t, 1, Len(t) - 1)))

\* The table fix_variant_alleles returns for the three tables it read.
fix_variant_alleles(dmap, dfreq, rdq) ==
    sort_values_RANK(merge_rank(apply_fix(merge_freq(dmap, dfreq)), rdq))

\* The alleles the tables of the fix_variant_alleles runs are drawn from.
MapAlleles == {<<"A">>, <<"-">>}

\* Mapping files: line i names variant SNPNames[i]; ALLELE and A1 are free.
MappingFiles ==
    {t \in SeqsOf([ALLELE : DQNames, SNP : {SNPNames[i] : i \in 1..MaxVariants},
                   A1 : MapAlleles], 1, MaxVariants) :
        \A i \in 1..Len(t) : t[i].SNP = SNPNames[i]}

\* .frq reports: at most one line per variant of the mapping file, in its order.
FreqReports ==
    {t \in SeqsOf([SNP : {SNPNames[i] : i \in 1..MaxVariants},
                   A1 : {<<"C">>, <<"0">>}, A2 : {<<"A">>, <<"G">>}], 0, MaxVariants) :
        \A i, j \in 1..Len(t) :
            i < j => \E a, b \in 1..MaxVariants :
                        a < b /\ t[i].SNP = SNPNames[a] /\ t[j].SNP = SNPNames[b]}

\* Ranking files: at most one line per DQ allele name, any ranks.
RankingFiles ==
    {t \in SeqsOf([DQ : DQNames, RANK : 1..MaxRank], 0, Cardinality(DQNames)) :
        UniqueDQ(t)}

InitFixVariants ==
    /\ pc = "fix_variant_alleles"
    /\ df_map \in MappingFiles
    /\ df_freq \in {f \in FreqReports :
                       \A i \in 1..Len(f) : \E j \in 1..Len(df_map) : f[i].SNP = df_map[j].SNP}
    /\ df_rdq \in RankingFiles
    /\ df_vmap = Unused
    /\ row = Unused /\ A1 = Unused
    /\ qscore_profiles = Unused /\ df_dosage = Unused /\ df_geno = Unused
    /\ sc_int = Unused /\ df_sc_int = Unused /\ sc_dq_plink = Unused
    /\ df_sc_plink_calc = Unused
    /\ df_sc_dq_plink_calc = Unused /\ df_scores = Unused
    /\ read_ok = Unused /\ df_roc = Unused /\ df_scores_upd = Unused
    /\ disk = Unused /\ dirpath = Unused /\ pattern = Unused /\ walked = Unused
    /\ runs = Unused

\* fix_variant_alleles: the process exits when the PLINK call fails or one of
\* the three files cannot be read with the columns asked for; otherwise it
\* returns the merged, resolved, ranked and sorted table.
FixVariantAlleles ==
    /\ pc = "fix_variant_alleles"
    /\ \E ok \in BOOLEAN :
          IF ok
          THEN /\ df_vmap' = fix_variant_alleles(df_map, df_freq, df_rdq)
               /\ pc' = "fix_returned"
          ELSE /\ df_vmap' = df_vmap
               /\ pc' = "exit"
    /\ UNCHANGED <<df_map, df_freq, df_rdq, applyVars, dosageVars, df_geno, grsVars,
                   metricsVars, fileVars, runVars>>

NextFixVariants == FixVariantAlleles

SpecFixVariants == InitFixVariants /\ [][NextFixVariants]_vars

\* C2: a variant that matches none of rules 1..7 stops the run with an
\* AmbiguousAlleleError: fix_variant_alleles returns no table that holds such a
\* variant, and none whose resolved allele is absent.
C2_AmbiguousAlleleAborts ==
    pc = "fix_returned" =>
        \A i \in 1..Len(df_vmap) :
            ~NoRuleMatches(df_vmap[i]) /\ df_vmap[i].A1 # None

\* C3: a variant whose alleleName has no rank stops fix_variant_alleles with a
\* MissingRankError: the table it returns holds no variant without a rank.
C3_MissingRankAborts ==
    pc = "fix_returned" =>
        \A i \in 1..Len(df_vmap) : df_vmap[i].RANK # NaNRank

(***************************************************************************)
(* score.py: create_dosage_table                                           *)
(***************************************************************************)
\* Bound: the largest SCORE of a range profile, in quarters (6 is 1.5).
MaxDosage4 == 6

\* The number of values of numpy.ubyte.
UByteValues == 256

\* A SCORE that PLINK printed as nan (no genotype of the range was called): a
\* value apart from every number drawn.
NaNScore == MaxDosage4 + 1

\* The samples of the .fam file, in its order; every .profile file PLINK writes
\* lists all of them in that order.
Fam == <<[FID |-> "f1", IID |-> "i1"], [FID |-> "f2", IID |-> "i2"]>>

\* What the SCORE column of a range profile holds, in quarters.
Scores == (0..MaxDosage4) \cup {NaNScore}

\* numpy.rint(x * 2) for x = q/4: q/2 rounded half to even.
rint_double(q) ==
    IF q % 2 = 0 THEN q \div 2
    ELSE LET f == (q - 1) \div 2 IN IF f % 2 = 0 THEN f ELSE f + 1

\* .astype(numpy.ubyte) of the rounded value: it wraps modulo 256; the cast of
\* NaN is undefined and gives nan_cast, whatever the build makes of it.
astype_ubyte(q, nan_cast) ==
    IF q = NaNScore THEN nan_cast ELSE rint_double(q) % UByteValues

\* df_vmap["ALLELE"].to_list()
vmap_alleles(vmap) == [i \in 1..Len(vmap) |-> vmap[i].ALLELE]

\* The keys of qscore_alleles_map: the alleles of the variants whose id names a
\* .profile file under the output directory.
qscore_alleles(vmap, profiles) ==
    {vmap[i].ALLELE : i \in {j \in 1..Len(vmap) : vmap[j].SNP \in DOMAIN profiles}}

\* The SCORE column of allele a after the merges: that of its profile, or the
\* 0.0 assigned to the alleles without one.
dosage_column(vmap, profiles, a) ==
    IF a \in qscore_alleles(vmap, profiles)
    THEN LET i == CHOOSE j \in 1..Len(vmap) :
                      vmap[j].ALLELE = a /\ vmap[j].SNP \in DOMAIN profiles
         IN  profiles[vmap[i].SNP]
    ELSE [k \in 1..Len(Fam) |-> 0]

\* The table create_dosage_table returns for the profiles PLINK wrote.
create_dosage_table(vmap, profiles, nan_cast) ==
    [k \in 1..Len(Fam) |->
        [FID |-> Fam[k].FID, IID |-> Fam[k].IID,
         dosage |-> [a \in {vmap[i].ALLELE : i \in 1..Len(vmap)} |->
                        astype_ubyte(dosage_column(vmap, profiles, a)[k], nan_cast)]]]

\* The rank-ordered table create_dosage_table is given: one variant per allele.
DosageVmap ==
    <<[ALLELE |-> "DQb", SNP |-> "rs2", A1 |-> <<"A">>, RANK |-> 1],
      [ALLELE |-> "DQa", SNP |-> "rs1", A1 |-> <<"C">>, RANK |-> 2]>>

\* The sets of .profile files PLINK may write: one per variant of a range that
\* holds data, each with a SCORE per sample.
ProfileSets ==
    UNION {[snps -> [1..Len(Fam) -> Scores]] :
              snps \in SUBSET {DosageVmap[i].SNP : i \in 1..Len(DosageVmap)}}

InitDosage ==
    /\ pc = "create_dosage_table"
    /\ df_vmap = DosageVmap
    /\ qscore_profiles \in ProfileSets
    /\ df_dosage = Unused
    /\ row = Unused /\ A1 = Unused
    /\ df_map = Unused /\ df_freq = Unused /\ df_rdq = Unused /\ df_geno = Unused
    /\ sc_int = Unused /\ df_sc_int = Unused /\ sc_dq_plink = Unused
    /\ df_sc_plink_calc = Unused
    /\ df_sc_dq_plink_calc = Unused /\ df_scores = Unused
    /\ read_ok = Unused /\ df_roc = Unused /\ df_scores_upd = Unused
    /\ disk = Unused /\ dirpath = Unused /\ pattern = Unused /\ walked = Unused
    /\ runs = Unused

\* create_dosage_table: the process exits when the three range files cannot be
\* written, the PLINK call fails or a profile cannot be read; with no profile at
\* all df_dosage is still None at the column assignment, which raises;
\* otherwise the table of copy counts is returned.
CreateDosageTable ==
    /\ pc = "create_dosage_table"
    /\ \E ok \in BOOLEAN, nan_cast \in 0..(UByteValues - 1) :
          IF ~ok
          THEN /\ pc' = "exit"
               /\ df_dosage' = df_dosage
          ELSE IF DOMAIN qscore_profiles = {}
          THEN /\ pc' = "raised"
               /\ df_dosage' = df_dosage
          ELSE /\ pc' = "dosage_returned"
               /\ df_dosage' = create_dosage_table(df_vmap, qscore_profiles, nan_cast)
    /\ UNCHANGED <<df_vmap, qscore_profiles, applyVars, df_map, df_freq, df_rdq,
                   df_geno, grsVars,
                   metricsVars, fileVars, runVars>>

NextDosage == CreateDosageTable

SpecDosage == InitDosage /\ [][NextDosage]_vars

\* C4: every copy count of the table create_dosage_table returns is 0, 1 or 2,
\* whatever SCORE the profile held (a value that doubles and rounds above 2 is
\* clamped), and it is 0 for an allele without a profile.
C4_CopyCountInRange ==
    pc = "dosage_returned" =>
        \A k \in 1..Len(df_dosage) : \A a \in DOMAIN df_dosage[k].dosage :
            /\ df_dosage[k].dosage[a] \in {0, 1, 2}
            /\ a \notin qscore_alleles(df_vmap, qscore_profiles)
                  => df_dosage[k].dosage[a] = 0

(***************************************************************************)
(* score.py: _apply_get_geno_call_alleles, get_geno_call_alleles           *)
(***************************************************************************)
\* Bound: the largest genotype count of the dosage tables drawn.
MaxCount == 3

\* max_calls, as get_geno_call_alleles sets it whatever it is given.
max_calls == 2

\* [allele] * freq
Repeat(allele, freq) == [i \in 1..freq |-> allele]

RECURSIVE data_serialise_flat(_, _)
\* The alleles of positive count, each freq times, in the order of the columns
\* (index lists the columns of the row from the first on).
data_serialise_flat(counts, index) ==
    IF index = <<>> THEN <<>>
    ELSE (IF counts[Head(index)] > 0
          THEN Repeat(Head(index), counts[Head(index)]) ELSE <<>>)
         \o data_serialise_flat(counts, Tail(index))

RECURSIVE once_each(_, _)
once_each(counts, index) ==
    IF index = <<>> THEN <<>>
    ELSE (IF counts[Head(index)] > 0 THEN <<Head(index)>> ELSE <<>>)
         \o once_each(counts, Tail(index))

\* Mutant: an allele of positive count is listed once, not freq times.
_apply_get_geno_call_alleles_once(counts, index, n) ==
    SubSeq(once_each(counts, index) \o Repeat("X", n), 1, n)

\* The row is given as its values (counts) and its column order (index).
_apply_get_geno_call_alleles(counts, index, n) ==
    SubSeq(data_serialise_flat(counts, index) \o Repeat("X", n), 1, n)

\* The table get_geno_call_alleles returns.
get_geno_call_alleles(df_dsg, alleles) ==
    [k \in 1..Len(df_dsg) |->
        LET calls == _apply_get_geno_call_alleles(df_dsg[k].dosage, alleles, max_calls)
        IN  [FID |-> df_dsg[k].FID, IID |-> df_dsg[k].IID, CALLS |-> calls,
             GENO1 |-> calls[1], GENO2 |-> calls[2]]]

\* The rank-ordered table whose ALLELE column main hands over as alleles.
GenoVmap ==
    <<[ALLELE |-> "DQb", SNP |-> "rs2", A1 |-> <<"A">>, RANK |-> 1],
      [ALLELE |-> "DQa", SNP |-> "rs1", A1 |-> <<"C">>, RANK |-> 2],
      [ALLELE |-> "DQc", SNP |-> "rs3", A1 |-> <<"A">>, RANK |-> 3]>>

\* Dosage tables as create_dosage_table returns them: a ubyte per sample and
\* allele, which the missing clamp lets exceed 2.
DosageTables ==
    {[k \in 1..Len(Fam) |-> [FID |-> Fam[k].FID, IID |-> Fam[k].IID, dosage |-> d[k]]] :
        d \in [1..Len(Fam) -> [{GenoVmap[i].ALLELE : i \in 1..Len(GenoVmap)} -> 0..MaxCount]]}

InitGeno ==
    /\ pc = "get_geno_call_alleles"
    /\ df_vmap = GenoVmap
    /\ df_dosage \in DosageTables
    /\ df_geno = Unused
    /\ row = Unused /\ A1 = Unused
    /\ df_map = Unused /\ df_freq = Unused /\ df_rdq = Unused
    /\ qscore_profiles = Unused
    /\ sc_int = Unused /\ df_sc_int = Unused /\ sc_dq_plink = Unused
    /\ df_sc_plink_calc = Unused
    /\ df_sc_dq_plink_calc = Unused /\ df_scores = Unused
    /\ read_ok = Unused /\ df_roc = Unused /\ df_scores_upd = Unused
    /\ disk = Unused /\ dirpath = Unused /\ pattern = Unused /\ walked = Unused
    /\ runs = Unused

GetGenoCallAlleles ==
    /\ pc = "get_geno_call_alleles"
    /\ df_geno' = get_geno_call_alleles(df_dosage, vmap_alleles(df_vmap))
    /\ pc' = "geno_returned"
    /\ UNCHANGED <<df_vmap, df_dosage, qscore_profiles, applyVars, df_map, df_freq,
                   df_rdq, grsVars,
                   metricsVars, fileVars, runVars>>

NextGeno == GetGenoCallAlleles

SpecGeno == InitGeno /\ [][NextGeno]_vars

\* The copies of the alleles up to the i-th of the rank order, added up.
RECURSIVE CopiesUpTo(_, _, _)
CopiesUpTo(counts, alleles, i) ==
    IF i = 0 THEN 0 ELSE CopiesUpTo(counts, alleles, i - 1) + counts[alleles[i]]

\* The j-th element of the sequence "each allele copyCount times, in rank
\* order, then no-calls": the allele whose copies cover position j, if any.
ExpectedCall(counts, alleles, j) ==
    IF \E i \in 1..Len(alleles) :
          CopiesUpTo(counts, alleles, i - 1) < j /\ j <= CopiesUpTo(counts, alleles, i)
    THEN alleles[CHOOSE i \in 1..Len(alleles) :
          CopiesUpTo(counts, alleles, i - 1) < j /\ j <= CopiesUpTo(counts, alleles, i)]
    ELSE "X"

\* C5: each individual's genotype call is the first two elements of its alleles
\* repeated copyCount times in rank order and padded with no-calls: a pair of
\* known allele names or placeholders, (no-call, no-call) without any copy.
C5_GenotypeCallIsFirstTwo ==
    pc = "geno_returned" =>
        /\ Len(df_geno) = Len(df_dosage)
        /\ \A k \in 1..Len(df_geno) :
            LET counts == df_dosage[k].dosage
                alleles == vmap_alleles(df_vmap)
                calls == df_geno[k].CALLS
            IN  /\ df_geno[k].FID = df_dosage[k].FID /\ df_geno[k].IID = df_dosage[k].IID
                /\ Len(calls) = 2
                /\ \A j \in 1..2 :
                      /\ calls[j] \in {alleles[i] : i \in 1..Len(alleles)} \cup {"X"}
                      /\ calls[j] = ExpectedCall(counts, alleles, j)
                /\ df_geno[k].GENO1 = calls[1] /\ df_geno[k].GENO2 = calls[2]
                /\ CopiesUpTo(counts, alleles, Len(alleles)) = 0 => calls = <<"X", "X">>

\* C5 witness: one individual with three copies (one of the first allele, two
\* of the second) is called with the third copy dropped, the other, without
\* any copy, is called (no-call, no-call).
C5_Witness ==
    /\ pc = "geno_returned"
    /\ df_dosage[1].dosage = [DQb |-> 1, DQa |-> 2, DQc |-> 0]
    /\ df_geno[1].CALLS = <<"DQb", "DQa">>
    /\ df_dosage[2].dosage = [DQb |-> 0, DQa |-> 0, DQc |-> 0]
    /\ df_geno[2].CALLS = <<"X", "X">>

(***************************************************************************)
(* score.py: generate_grs, the rank-ordering of the interaction table      *)
(***************************************************************************)
\* Bound: the number of lines of the interaction score file.
MaxIntRows == 2

\* The BETA of the lines of the interaction score file, line by line.
IntBetas == <<5, 7, 11, 13>>

\* df_sc_int.melt(id_vars=["SNO"], value_vars=allele_cols): the ALLELE1 column
\* of every line (SNO is the line's number), then the ALLELE2 column.
melt(t) ==
    [i \in 1..(2 * Len(t)) |->
        IF i <= Len(t)
        THEN [SNO |-> i, value |-> t[i].ALLELE1]
        ELSE [SNO |-> i - Len(t), value |-> t[i - Len(t)].ALLELE2]]

\* .merge(df_rdq, how="left", left_on="value", right_on="DQ")
merge_long_rank(long, rdq) ==
    Concat([i \in 1..Len(long) |->
        LET rs == SelectSeq(rdq, LAMBDA r : r.DQ = long[i].value)
        IN  IF rs = <<>>
            THEN <<[SNO |-> long[i].SNO, value |-> long[i].value, RANK |-> NaNRank]>>
            ELSE [j \in 1..Len(rs) |->
                    [SNO |-> long[i].SNO, value |-> long[i].value, RANK |-> rs[j].RANK]]])

\* The order of sort_values(by=["SNO", "RANK"]).
SnoRankBefore(a, b) == a.SNO < b.SNO \/ (a.SNO = b.SNO /\ RankBefore(a, b))

RECURSIVE InsertBySnoRank(_, _)
InsertBySnoRank(x, t) ==
    IF t = <<>> THEN <<x>>
    ELSE IF SnoRankBefore(x, Head(t)) THEN <<x>> \o t
    ELSE <<Head(t)>> \o InsertBySnoRank(x, Tail(t))

RECURSIVE sort_values_SNO_RANK(_)
\* .sort_values(by=["SNO", "RANK"]): a sort on two keys is a stable one.
sort_values_SNO_RANK(t) ==
    IF t = <<>> THEN <<>>
    ELSE InsertBySnoRank(t[Len(t)], sort_values_SNO_RANK(SubSeq(t, 1, Len(t) - 1)))

\* groupby(by=["SNO"])["RANK"].transform("rank", method="first") of line i of
\* the sorted table: its place among the lines of its SNO, equal ranks in the
\* order they stand in.
ALLELE_ORDER(long, i) ==
    1 + Cardinality({j \in 1..(i - 1) : long[j].SNO = long[i].SNO})

\* .astype(int) raises on the NaN that the rank of a NaN is.
rank_has_nan(long) == \E i \in 1..Len(long) : long[i].RANK = NaNRank

\* The value of the line of SNO sno that ALLELE_ORDER numbers k.
pivot_value(long, sno, k) ==
    long[CHOOSE i \in 1..Len(long) :
            long[i].SNO = sno /\ ALLELE_ORDER(long, i) = k].value

\* Mutant: the two alleles stay in the columns the file gave them.
rank_order_interactions_as_given(t, rdq) ==
    [sno \in 1..Len(t) |->
        [ALLELE1 |-> t[sno].ALLELE1, ALLELE2 |-> t[sno].ALLELE2, BETA |-> t[sno].BETA]]

\* The mutation of rank_order_interactions that puts the allele of order 2
\* first.
rank_order_interactions_reversed(t, rdq) ==
    LET long == sort_values_SNO_RANK(merge_long_rank(melt(t), rdq))
    IN  [sno \in 1..Len(t) |->
            [ALLELE1 |-> pivot_value(long, sno, 2),
             ALLELE2 |-> pivot_value(long, sno, 1),
             BETA |-> t[sno].BETA]]

\* The table df_sc_int is replaced by: per line of the file (pivot orders them
\* by SNO), the allele of order 1, the allele of order 2 and the line's BETA.
rank_order_interactions(t, rdq) ==
    LET long == sort_values_SNO_RANK(merge_long_rank(melt(t), rdq))
    IN  [sno \in 1..Len(t) |->
            [ALLELE1 |-> pivot_value(long, sno, 1),
             ALLELE2 |-> pivot_value(long, sno, 2),
             BETA |-> t[sno].BETA]]

\* Interaction score files: one to MaxIntRows lines over the DQ allele names,
\* no two lines giving the same alleles in the same columns (the same two
\* alleles may come a second time the other way round).
InteractionFiles ==
    {[k \in 1..Len(p) |->
        [ALLELE1 |-> p[k][1], ALLELE2 |-> p[k][2], BETA |-> IntBetas[k]]] :
        p \in {q \in SeqsOf(DQNames \X DQNames, 1, MaxIntRows) :
                  \A i, j \in 1..Len(q) : q[i] = q[j] => i = j}}

\* The RANK the ranking file gives allele a (NaN when it has no line for it).
rank_of(rdq, a) ==
    IF \E i \in 1..Len(rdq) : rdq[i].DQ = a
    THEN rdq[CHOOSE i \in 1..Len(rdq) : rdq[i].DQ = a].RANK
    ELSE NaNRank

\* generate_grs up to the rank-ordered interaction table: the process exits
\* when a file cannot be read, which is also what reading the path "" of an
\* absent DQ-only score file comes to; .astype(int) raises when an allele of
\* the interaction file has no rank.
GrsRankOrder ==
    /\ pc = "generate_grs"
    /\ \E ok \in BOOLEAN :
          /\ read_ok' = ok
          /\ IF ~ok \/ sc_dq_plink = ""
             THEN /\ pc' = "exit"
                  /\ df_sc_int' = df_sc_int
             ELSE IF rank_has_nan(merge_long_rank(melt(sc_int), df_rdq))
             THEN /\ pc' = "raised"
                  /\ df_sc_int' = df_sc_int
             ELSE /\ pc' = "rank_ordered"
                  /\ df_sc_int' = rank_order_interactions(sc_int, df_rdq)
    /\ UNCHANGED <<sc_int, sc_dq_plink, df_sc_plink_calc, df_sc_dq_plink_calc, df_scores,
                   df_rdq, df_geno, applyVars, fixVars, dosageVars,
                   metricsVars, fileVars, runVars>>

InitRankOrder ==
    /\ pc = "generate_grs"
    /\ df_rdq \in RankingFiles
    /\ sc_int \in InteractionFiles
    /\ sc_dq_plink \in {"", "dq_variants.txt"}
    /\ df_sc_int = Unused /\ df_geno = Unused
    /\ df_sc_plink_calc = Unused /\ df_sc_dq_plink_calc = Unused /\ df_scores = Unused
    /\ read_ok = Unused /\ df_roc = Unused /\ df_scores_upd = Unused
    /\ disk = Unused /\ dirpath = Unused /\ pattern = Unused /\ walked = Unused
    /\ runs = Unused
    /\ row = Unused /\ A1 = Unused
    /\ df_map = Unused /\ df_freq = Unused /\ df_vmap = Unused
    /\ qscore_profiles = Unused /\ df_dosage = Unused

NextRankOrder == GrsRankOrder

SpecRankOrder == InitRankOrder /\ [][NextRankOrder]_vars

\* The rank-ordered line k holds the two alleles and the BETA of line k of the
\* file.
SameRow(canon, raw) ==
    /\ canon.BETA = raw.BETA
    /\ \/ canon.ALLELE1 = raw.ALLELE1 /\ canon.ALLELE2 = raw.ALLELE2
       \/ canon.ALLELE1 = raw.ALLELE2 /\ canon.ALLELE2 = raw.ALLELE1

\* No two lines of the ranking file give the same RANK.
UniqueRanks(rdq) == \A i, j \in 1..Len(rdq) : rdq[i].RANK = rdq[j].RANK => i = j

\* C6 as claimed: with unique ranks, every canonicalized row holds the alleles
\* and the beta of its raw row, and the rank of its first allele is below that
\* of its second.
C6_StrictRankOrder ==
    (pc = "rank_ordered" /\ UniqueRanks(df_rdq)) =>
        /\ Len(df_sc_int) = Len(sc_int)
        /\ \A k \in 1..Len(df_sc_int) :
              /\ SameRow(df_sc_int[k], sc_int[k])
              /\ rank_of(df_rdq, df_sc_int[k].ALLELE1) < rank_of(df_rdq, df_sc_int[k].ALLELE2)

\* C6 as amended: every canonicalized row holds the alleles and the beta of its
\* raw row, in either input order, and the rank of its first allele is at most
\* that of its second: below it when the two alleles have different ranks,
\* equal when the row names one allele twice.
C6_RankOrder ==
    pc = "rank_ordered" =>
        /\ Len(df_sc_int) = Len(sc_int)
        /\ \A k \in 1..Len(df_sc_int) :
            LET r1 == rank_of(df_rdq, df_sc_int[k].ALLELE1)
                r2 == rank_of(df_rdq, df_sc_int[k].ALLELE2)
            IN  /\ SameRow(df_sc_int[k], sc_int[k])
                /\ r1 # NaNRank /\ r2 # NaNRank
                /\ r1 <= r2
                /\ rank_of(df_rdq, sc_int[k].ALLELE1) # rank_of(df_rdq, sc_int[k].ALLELE2)
                      => r1 < r2

\* C6 witness: a row given with the allele of higher rank first is turned
\* round, next to a row that names one allele twice.
C6_Witness ==
    /\ pc = "rank_ordered"
    /\ df_rdq = <<[DQ |-> "DQa", RANK |-> 1], [DQ |-> "DQb", RANK |-> 2]>>
    /\ sc_int = <<[ALLELE1 |-> "DQb", ALLELE2 |-> "DQa", BETA |-> 5],
                  [ALLELE1 |-> "DQa", ALLELE2 |-> "DQa", BETA |-> 7]>>
    /\ df_sc_int = <<[ALLELE1 |-> "DQa", ALLELE2 |-> "DQb", BETA |-> 5],
                     [ALLELE1 |-> "DQa", ALLELE2 |-> "DQa", BETA |-> 7]>>

(***************************************************************************)
(* score.py: generate_grs, the interaction term and the scores             *)
(***************************************************************************)
\* The SCORESUM PLINK gives the samples of Fam, over all variants and over the
\* DQ variants.
AllVariantsSum == <<100, 200>>
DQVariantsSum == <<1000, 2000>>

\* Mutant: the genotype call is matched against the pair the other way round.
merge_interactions_swapped(geno, ints) ==
    Concat([k \in 1..Len(geno) |->
        LET ms == SelectSeq(ints, LAMBDA r :
                     r.ALLELE2 = geno[k].GENO1 /\ r.ALLELE1 = geno[k].GENO2)
        IN  IF ms = <<>>
            THEN <<[FID |-> geno[k].FID, IID |-> geno[k].IID, BETA |-> 0]>>
            ELSE [j \in 1..Len(ms) |->
                    [FID |-> geno[k].FID, IID |-> geno[k].IID, BETA |-> ms[j].BETA]]])

\* df_geno[["FID", "IID"] + geno_cols].merge(df_sc_int, how="left",
\* left_on=geno_cols, right_on=allele_cols).drop(...).fillna({"BETA": 0}): a
\* line per individual and matching line of the interaction table, or one line
\* of BETA 0 for an individual without any.
merge_interactions(geno, ints) ==
    Concat([k \in 1..Len(geno) |->
        LET ms == SelectSeq(ints, LAMBDA r :
                     r.ALLELE1 = geno[k].GENO1 /\ r.ALLELE2 = geno[k].GENO2)
        IN  IF ms = <<>>
            THEN <<[FID |-> geno[k].FID, IID |-> geno[k].IID, BETA |-> 0]>>
            ELSE [j \in 1..Len(ms) |->
                    [FID |-> geno[k].FID, IID |-> geno[k].IID, BETA |-> ms[j].BETA]]])

\* The lines of profile calc for the individual of line r.
profile_lines(calc, r) ==
    SelectSeq(calc, LAMBDA c : c.FID = r.FID /\ c.IID = r.IID)

\* Mutant: a left merge; the sum over the columns skips the missing SCORESUM.
add_all_variants_left(scores, calc) ==
    Concat([i \in 1..Len(scores) |->
        LET cs == profile_lines(calc, scores[i])
        IN  IF cs = <<>>
            THEN <<[FID |-> scores[i].FID, IID |-> scores[i].IID,
                    BETA |-> scores[i].BETA, SCORE |-> scores[i].BETA]>>
            ELSE [j \in 1..Len(cs) |->
                    [FID |-> scores[i].FID, IID |-> scores[i].IID,
                     BETA |-> scores[i].BETA,
                     SCORE |-> scores[i].BETA + cs[j].SCORESUM]]])

\* df_scores.merge(df_sc_plink_calc, how="inner", on=["FID", "IID"]) and
\* SCORE = BETA + SCORESUM_plink.
add_all_variants(scores, calc) ==
    Concat([i \in 1..Len(scores) |->
        LET cs == profile_lines(calc, scores[i])
        IN  [j \in 1..Len(cs) |->
                [FID |-> scores[i].FID, IID |-> scores[i].IID,
                 BETA |-> scores[i].BETA,
                 SCORE |-> scores[i].BETA + cs[j].SCORESUM]]])

\* Mutant: the DQ score is built on the score, not on the interaction term.
add_dq_variants_on_score(scores, calc) ==
    Concat([i \in 1..Len(scores) |->
        LET cs == profile_lines(calc, scores[i])
        IN  [j \in 1..Len(cs) |->
                [FID |-> scores[i].FID, IID |-> scores[i].IID,
                 BETA |-> scores[i].BETA, SCORE |-> scores[i].SCORE,
                 DQSCORE |-> scores[i].SCORE + cs[j].SCORESUM]]])

\* df_scores.merge(df_sc_dq_plink_calc, how="inner", on=["FID", "IID"]) and
\* DQSCORE = BETA + SCORESUM_dq_plink.
add_dq_variants(scores, calc) ==
    Concat([i \in 1..Len(scores) |->
        LET cs == profile_lines(calc, scores[i])
        IN  [j \in 1..Len(cs) |->
                [FID |-> scores[i].FID, IID |-> scores[i].IID,
                 BETA |-> scores[i].BETA, SCORE |-> scores[i].SCORE,
                 DQSCORE |-> scores[i].BETA + cs[j].SCORESUM]]])

\* df_scores.drop(columns=score_cols_to_drop): BETA and the SCORESUM columns go.
drop_score_cols(scores) ==
    [i \in 1..Len(scores) |->
        IF "DQSCORE" \in DOMAIN scores[i]
        THEN [FID |-> scores[i].FID, IID |-> scores[i].IID,
              SCORE |-> scores[i].SCORE, DQSCORE |-> scores[i].DQSCORE]
        ELSE [FID |-> scores[i].FID, IID |-> scores[i].IID, SCORE |-> scores[i].SCORE]]

RECURSIVE ProfileFrom(_, _, _)
\* The lines of a PLINK .profile from sample k of Fam on: those of the samples
\* numbered in present, in the order of Fam.
ProfileFrom(sums, present, k) ==
    IF k > Len(Fam) THEN <<>>
    ELSE (IF k \in present
          THEN <<[FID |-> Fam[k].FID, IID |-> Fam[k].IID, SCORESUM |-> sums[k]]>>
          ELSE <<>>)
         \o ProfileFrom(sums, present, k + 1)

Profile(sums, present) == ProfileFrom(sums, present, 1)

Profiles(sums) == {Profile(sums, present) : present \in SUBSET (1..Len(Fam))}

\* A genotype call get_geno_call_alleles can give under the ranking file: two
\* alleles in rank order (an unranked one last) or no-calls after the alleles.
GenoCalls(rdq) ==
    {g \in (DQNames \cup {"X"}) \X (DQNames \cup {"X"}) :
        /\ g[1] = "X" => g[2] = "X"
        /\ (g[1] # "X" /\ g[2] # "X") =>
              ~RankBefore([RANK |-> rank_of(rdq, g[2])], [RANK |-> rank_of(rdq, g[1])])}

GenoTables(rdq) ==
    {[k \in 1..Len(Fam) |->
        [FID |-> Fam[k].FID, IID |-> Fam[k].IID, GENO1 |-> g[k][1], GENO2 |-> g[k][2]]] :
        g \in [1..Len(Fam) -> GenoCalls(rdq)]}

\* The ranking files of the generate_grs runs.
GrsRankingFiles ==
    {<<[DQ |-> "DQa", RANK |-> 1], [DQ |-> "DQb", RANK |-> 2]>>,
     <<[DQ |-> "DQa", RANK |-> 2], [DQ |-> "DQb", RANK |-> 1]>>,
     <<[DQ |-> "DQa", RANK |-> 1]>>}

InitGrs ==
    /\ pc = "generate_grs"
    /\ df_rdq \in GrsRankingFiles
    /\ df_geno \in GenoTables(df_rdq)
    /\ sc_int \in InteractionFiles
    /\ df_sc_plink_calc \in Profiles(AllVariantsSum)
    /\ \/ sc_dq_plink = "" /\ df_sc_dq_plink_calc = Unused
       \/ sc_dq_plink = "dq_variants.txt" /\ df_sc_dq_plink_calc \in Profiles(DQVariantsSum)
    /\ df_sc_int = Unused /\ df_scores = Unused
    /\ read_ok = Unused /\ df_roc = Unused /\ df_scores_upd = Unused
    /\ disk = Unused /\ dirpath = Unused /\ pattern = Unused /\ walked = Unused
    /\ runs = Unused
    /\ row = Unused /\ A1 = Unused
    /\ df_map = Unused /\ df_freq = Unused /\ df_vmap = Unused
    /\ qscore_profiles = Unused /\ df_dosage = Unused

\* generate_grs, the interaction term of every individual.
GrsInteraction ==
    /\ pc = "rank_ordered"
    /\ df_geno # Unused
    /\ df_scores' = merge_interactions(df_geno, df_sc_int)
    /\ pc' = "interaction_merged"
    /\ UNCHANGED <<sc_int, df_sc_int, sc_dq_plink, df_sc_plink_calc, df_sc_dq_plink_calc,
                   read_ok, df_rdq, df_geno, applyVars, fixVars, dosageVars,
                   metricsVars, fileVars, runVars>>

\* generate_grs from the PLINK score over all variants to the return: the
\* process exits when a PLINK call fails or its profile cannot be read.
GrsScores ==
    /\ pc = "interaction_merged"
    /\ \E ok \in BOOLEAN :
          IF ~ok
          THEN /\ pc' = "exit"
               /\ df_scores' = df_scores
          ELSE /\ pc' = "grs_returned"
               /\ df_scores' =
                     LET with_score == add_all_variants(df_scores, df_sc_plink_calc)
                     IN  drop_score_cols(
                             IF sc_dq_plink # ""
                             THEN add_dq_variants(with_score, df_sc_dq_plink_calc)
                             ELSE with_score)
    /\ UNCHANGED <<sc_int, df_sc_int, sc_dq_plink, df_sc_plink_calc, df_sc_dq_plink_calc,
                   read_ok, df_rdq, df_geno, applyVars, fixVars, dosageVars,
                   metricsVars, fileVars, runVars>>

NextGrs == GrsRankOrder \/ GrsInteraction \/ GrsScores

SpecGrs == InitGrs /\ [][NextGrs]_vars
\* The lines of table t that are of the individual of line k of df_geno.
LinesOf(t, k) ==
    {i \in 1..Len(t) : t[i].FID = df_geno[k].FID /\ t[i].IID = df_geno[k].IID}

\* The lines of the rank-ordered interaction table whose pair is exactly the
\* genotype call of line k of df_geno.
MatchingRows(k) ==
    {j \in 1..Len(df_sc_int) :
        <<df_sc_int[j].ALLELE1, df_sc_int[j].ALLELE2>> = <<df_geno[k].GENO1, df_geno[k].GENO2>>}

\* The interaction betas of individual k: those of its matching rows, else 0.
InteractionBetas(k) ==
    IF MatchingRows(k) = {} THEN {0} ELSE {df_sc_int[j].BETA : j \in MatchingRows(k)}

\* C7: the interaction beta of an individual is the beta of the canonicalized
\* row whose (lower, higher) pair equals its genotype call, and 0, without any
\* error, when no row does.
C7_InteractionBetaByExactPair ==
    pc = "interaction_merged" =>
        /\ \A i \in 1..Len(df_scores) : \E k \in 1..Len(df_geno) : i \in LinesOf(df_scores, k)
        /\ \A k \in 1..Len(df_geno) :
              /\ LinesOf(df_scores, k) # {}
              /\ {df_scores[i].BETA : i \in LinesOf(df_scores, k)} = InteractionBetas(k)

\* C7 witness: ranks {DQa: 1, DQb: 2} and the raw row (DQb, DQa, 5); the call
\* (DQa, DQb) receives 5 and the call (DQa, DQa) receives 0.
C7_Witness ==
    /\ pc = "interaction_merged"
    /\ df_rdq = <<[DQ |-> "DQa", RANK |-> 1], [DQ |-> "DQb", RANK |-> 2]>>
    /\ sc_int = <<[ALLELE1 |-> "DQb", ALLELE2 |-> "DQa", BETA |-> 5]>>
    /\ <<df_geno[1].GENO1, df_geno[1].GENO2>> = <<"DQa", "DQb">>
    /\ <<df_geno[2].GENO1, df_geno[2].GENO2>> = <<"DQa", "DQa">>
    /\ df_scores = <<[FID |-> "f1", IID |-> "i1", BETA |-> 5],
                     [FID |-> "f2", IID |-> "i2", BETA |-> 0]>>

\* C8: in every line generate_grs returns, SCORE is an interaction beta of the
\* individual plus its total over all variants, and DQSCORE is that same beta
\* plus its total over the DQ variants.
C8_ScoreIsBetaPlusTotal ==
    pc = "grs_returned" =>
        \A k \in 1..Len(df_geno) : \A i \in LinesOf(df_scores, k) :
            \E b \in InteractionBetas(k) :
                /\ \E c \in LinesOf(df_sc_plink_calc, k) :
                      df_scores[i].SCORE = b + df_sc_plink_calc[c].SCORESUM
                /\ sc_dq_plink # "" =>
                      \E d \in LinesOf(df_sc_dq_plink_calc, k) :
                          df_scores[i].DQSCORE = b + df_sc_dq_plink_calc[d].SCORESUM

\* C8 witness: an individual with interaction beta 5 and totals 100 and 1000
\* is returned with SCORE 105 and DQSCORE 1005.
C8_Witness ==
    /\ pc = "grs_returned"
    /\ InteractionBetas(1) = {5}
    /\ \E i \in LinesOf(df_scores, 1) :
          df_scores[i] = [FID |-> "f1", IID |-> "i1", SCORE |-> 105, DQSCORE |-> 1005]

\* Individual k has every linear total that generate_grs asks for.
FullyScoreable(k) ==
    /\ LinesOf(df_sc_plink_calc, k) # {}
    /\ sc_dq_plink # "" => LinesOf(df_sc_dq_plink_calc, k) # {}

\* C9: an individual of the genotype table is in the table generate_grs
\* returns exactly when it is in the total over all variants and, a DQ-only
\* score file being given, in the DQ-only total; no other line is returned.
C9_InnerJoinOnTotals ==
    pc = "grs_returned" =>
        /\ \A k \in 1..Len(df_geno) : LinesOf(df_scores, k) # {} <=> FullyScoreable(k)
        /\ \A i \in 1..Len(df_scores) : \E k \in 1..Len(df_geno) : i \in LinesOf(df_scores, k)

\* C9 witness: the first individual has both totals and is returned, the
\* second lacks the DQ-only total and is not.
C9_Witness ==
    /\ pc = "grs_returned"
    /\ FullyScoreable(1) /\ LinesOf(df_scores, 1) # {}
    /\ LinesOf(df_sc_plink_calc, 2) # {} /\ LinesOf(df_sc_dq_plink_calc, 2) = {}
    /\ LinesOf(df_scores, 2) = {}

\* C10: whatever the interaction table, the table generate_grs returns holds
\* exactly one line for every fully scoreable individual.
C10_OneRowPerIndividual ==
    pc = "grs_returned" =>
        \A k \in 1..Len(df_geno) :
            FullyScoreable(k) => Cardinality(LinesOf(df_scores, k)) = 1

(***************************************************************************)
(* generate_grs without a DQ-only score file                               *)
(***************************************************************************)
\* C11: when no DQ-only score file is given (sc_dq_plink is "") and the
\* ranking, interaction and all-variants score files are read, the run does
\* not abort: generate_grs never ends in the exit of the process (here, for
\* interaction files whose alleles are all ranked).
C11_NoDQSourceCompletes ==
    pc = "exit" =>
        \/ sc_dq_plink # ""
        \/ read_ok = FALSE
        \/ rank_has_nan(merge_long_rank(melt(sc_int), df_rdq))

(***************************************************************************)
(* retrieve_centiles (metrics.py)                                          *)
(***************************************************************************)
\* Bound: the number of individuals of a score table.
MaxIndividuals == 3
\* Bound: the largest SCORE of an individual.
MaxScore == 6

\* A missing number (NaN) of the columns of the table of retrieve_centiles.
NaNValue == 0 - 1

\* A missing value (NaN) of the columns FID and IID.
NaNName == "NaN"

\* The individuals of a score table, in the order of their (FID, IID).
Individuals ==
    <<[FID |-> "f1", IID |-> "i1"], [FID |-> "f2", IID |-> "i2"],
      [FID |-> "f3", IID |-> "i3"], [FID |-> "f4", IID |-> "i4"],
      [FID |-> "f5", IID |-> "i5"]>>

\* The lines of the ROC curve the files are drawn from.
RocCurve ==
    <<[threshold |-> 1, CTRLCENTILE |-> 10, CASECENTILE |-> 1, PPV |-> 2, SOURCE |-> "ROCFILE"],
      [threshold |-> 3, CTRLCENTILE |-> 50, CASECENTILE |-> 5, PPV |-> 4, SOURCE |-> "ROCFILE"],
      [threshold |-> 5, CTRLCENTILE |-> 90, CASECENTILE |-> 20, PPV |-> 9, SOURCE |-> "ROCFILE"]>>

\* df_roc after lines 32-42: a non-empty selection of lines of the curve.
RocFiles ==
    {SelectSeq(RocCurve, LAMBDA r : r.threshold \in T) :
        T \in (SUBSET {RocCurve[k].threshold : k \in 1..Len(RocCurve)}) \ {{}}}

\* The score tables handed to retrieve_centiles: with a DQSCORE column
\* (has_dq) or without it.
ScoreTables(has_dq) ==
    UNION {{[k \in 1..n |->
                IF has_dq
                THEN [FID |-> Individuals[k].FID, IID |-> Individuals[k].IID,
                      SCORE |-> sc[k], DQSCORE |-> sc[k]]
                ELSE [FID |-> Individuals[k].FID, IID |-> Individuals[k].IID,
                      SCORE |-> sc[k]]] :
              sc \in [1..n -> 0..MaxScore]} : n \in 1..MaxIndividuals}

\* Lines 48-55: the thresholds of the curve as lines of a score table.
df_roc_temp(roc) ==
    [k \in 1..Len(roc) |->
        [SOURCE |-> roc[k].SOURCE, FID |-> NaNName, IID |-> NaNName,
         SCORE |-> roc[k].threshold, DQSCORE |-> NaNValue]]

\* Lines 43, 56-58: the individuals' lines, marked with their source.
df_scores_temp(scores) ==
    [k \in 1..Len(scores) |->
        [SOURCE |-> "SCOREFILE", FID |-> scores[k].FID, IID |-> scores[k].IID,
         SCORE |-> scores[k].SCORE, DQSCORE |-> scores[k].DQSCORE]]

\* The ways of putting line x into t, sorted by SCORE, that keep it sorted.
InsertByScore(x, t) ==
    {SubSeq(t, 1, k) \o <<x>> \o SubSeq(t, k + 1, Len(t)) :
        k \in {j \in 0..Len(t) :
                  /\ \A i \in 1..j : t[i].SCORE <= x.SCORE
                  /\ \A i \in (j + 1)..Len(t) : x.SCORE <= t[i].SCORE}}

RECURSIVE sort_values_SCORE(_)
\* Line 61, sort_values(by=["SCORE"]) with the default quicksort, which is
\* not stable: every order of t by ascending SCORE.
sort_values_SCORE(t) ==
    IF t = <<>> THEN {<<>>}
    ELSE UNION {InsertByScore(Head(t), s) : s \in sort_values_SCORE(Tail(t))}

\* Lines 66-71, the left merge on (SOURCE, SCORE) = (SOURCE, threshold): a
\* line of the curve gets its threshold and metrics, an individual NaN.
merge_roc(upd, roc) ==
    Concat([i \in 1..Len(upd) |->
        LET l == upd[i]
            m == SelectSeq(roc, LAMBDA r : r.SOURCE = l.SOURCE /\ r.threshold = l.SCORE)
        IN  IF m = <<>>
            THEN <<[SOURCE |-> l.SOURCE, FID |-> l.FID, IID |-> l.IID,
                    SCORE |-> l.SCORE, DQSCORE |-> l.DQSCORE,
                    threshold |-> NaNValue, CTRLCENTILE |-> NaNValue,
                    CASECENTILE |-> NaNValue, PPV |-> NaNValue]>>
            ELSE [k \in 1..Len(m) |->
                   [SOURCE |-> l.SOURCE, FID |-> l.FID, IID |-> l.IID,
                    SCORE |-> l.SCORE, DQSCORE |-> l.DQSCORE,
                    threshold |-> m[k].threshold, CTRLCENTILE |-> m[k].CTRLCENTILE,
                    CASECENTILE |-> m[k].CASECENTILE, PPV |-> m[k].PPV]]])

\* The positions of a column that hold a number.
valid(col) == {j \in 1..Len(col) : col[j] # NaNValue}

Max(S) == CHOOSE x \in S : \A y \in S : y <= x
Min(S) == CHOOSE x \in S : \A y \in S : x <= y

\* The mutation of interpolate_nearest that takes the number of the farther
\* position.
interpolate_farthest(col) ==
    LET numbers == valid(col)
    IN  [i \in 1..Len(col) |->
            LET below == {j \in numbers : j < i}
                above == {j \in numbers : j > i}
            IN  IF col[i] # NaNValue THEN col[i]
                ELSE IF below = {} \/ above = {} THEN NaNValue
                ELSE IF i - Max(below) <= Min(above) - i
                     THEN col[Min(above)] ELSE col[Max(below)]]

\* Line 74, interpolate(method="nearest") of one column: a NaN between two
\* numbers takes the number of the nearer position of the index, the lower
\* position when both are as near; a NaN before the first or after the last
\* number stays.
interpolate_nearest(col) ==
    LET numbers == valid(col)
    IN  [i \in 1..Len(col) |->
            LET below == {j \in numbers : j < i}
                above == {j \in numbers : j > i}
            IN  IF col[i] # NaNValue THEN col[i]
                ELSE IF below = {} \/ above = {} THEN NaNValue
                ELSE IF i - Max(below) <= Min(above) - i
                     THEN col[Max(below)] ELSE col[Min(above)]]

\* The mutation of bfill that fills nothing.
bfill_nothing(col) == col

RECURSIVE bfill(_)
\* Line 74, bfill() of one column: a NaN takes the next number after it.
bfill(col) ==
    IF col = <<>> THEN <<>>
    ELSE LET rest == bfill(Tail(col))
         IN  <<IF Head(col) # NaNValue \/ rest = <<>> THEN Head(col) ELSE Head(rest)>>
             \o rest

RECURSIVE ffill_from(_, _)
\* ffill() of the rest of a column whose last value before col is last.
ffill_from(col, last) ==
    IF col = <<>> THEN <<>>
    ELSE LET v == IF Head(col) # NaNValue THEN Head(col) ELSE last
         IN  <<v>> \o ffill_from(Tail(col), v)

\* Line 74, ffill() of one column: a NaN takes the last number before it.
ffill(col) == ffill_from(col, NaNValue)

\* Line 74 of one column c of the table.
interpolate_bfill_ffill_column(t, c) ==
    ffill(bfill(interpolate_nearest([j \in 1..Len(t) |-> t[j][c]])))

\* Line 74 over the table, column by column.
interpolate_bfill_ffill(t) ==
    LET SCORE == interpolate_bfill_ffill_column(t, "SCORE")
        DQSCORE == interpolate_bfill_ffill_column(t, "DQSCORE")
        threshold == interpolate_bfill_ffill_column(t, "threshold")
        CTRLCENTILE == interpolate_bfill_ffill_column(t, "CTRLCENTILE")
        CASECENTILE == interpolate_bfill_ffill_column(t, "CASECENTILE")
        PPV == interpolate_bfill_ffill_column(t, "PPV")
    IN  [i \in 1..Len(t) |->
            [SOURCE |-> t[i].SOURCE, FID |-> t[i].FID, IID |-> t[i].IID,
             SCORE |-> SCORE[i], DQSCORE |-> DQSCORE[i], threshold |-> threshold[i],
             CTRLCENTILE |-> CTRLCENTILE[i], CASECENTILE |-> CASECENTILE[i],
             PPV |-> PPV[i]]]

\* The place of an individual in the order of (FID, IID).
FidOrder(r) == CHOOSE k \in 1..Len(Individuals) : Individuals[k].FID = r.FID

RECURSIVE InsertByFid(_, _)
InsertByFid(x, t) ==
    IF t = <<>> THEN <<x>>
    ELSE IF FidOrder(x) < FidOrder(Head(t)) THEN <<x>> \o t
    ELSE <<Head(t)>> \o InsertByFid(x, Tail(t))

RECURSIVE sort_values_FID_IID(_)
\* Line 82, sort_values(by=["FID", "IID"]).
sort_values_FID_IID(t) ==
    IF t = <<>> THEN <<>>
    ELSE InsertByFid(Head(t), sort_values_FID_IID(Tail(t)))

\* Lines 76-84: the individuals' lines (no line has the SOURCE "ROC" that
\* line 77 drops), their seven columns, by (FID, IID).
select_scorefile(upd) ==
    LET ind == SelectSeq(upd, LAMBDA r : r.SOURCE # "ROC" /\ r.SOURCE = "SCOREFILE")
    IN  sort_values_FID_IID(
            [k \in 1..Len(ind) |->
                [FID |-> ind[k].FID, IID |-> ind[k].IID, SCORE |-> ind[k].SCORE,
                 DQSCORE |-> ind[k].DQSCORE, CTRLCENTILE |-> ind[k].CTRLCENTILE,
                 CASECENTILE |-> ind[k].CASECENTILE, PPV |-> ind[k].PPV]])

\* The score table has the DQSCORE column that lines 56-58 select.
has_DQSCORE(scores) == \A k \in 1..Len(scores) : "DQSCORE" \in DOMAIN scores[k]

InitCentiles ==
    /\ pc = "retrieve_centiles"
    /\ df_roc \in RocFiles
    /\ \E has_dq \in BOOLEAN : df_scores \in ScoreTables(has_dq)
    /\ df_scores_upd = Unused
    /\ row = Unused /\ A1 = Unused
    /\ df_map = Unused /\ df_freq = Unused /\ df_rdq = Unused /\ df_vmap = Unused
    /\ qscore_profiles = Unused /\ df_dosage = Unused /\ df_geno = Unused
    /\ sc_int = Unused /\ df_sc_int = Unused /\ sc_dq_plink = Unused
    /\ df_sc_plink_calc = Unused /\ df_sc_dq_plink_calc = Unused /\ read_ok = Unused
    /\ disk = Unused /\ dirpath = Unused /\ pattern = Unused /\ walked = Unused
    /\ runs = Unused

\* retrieve_centiles: the process exits when the ROC file cannot be read
\* (lines 31-47), selecting DQSCORE raises KeyError when the score table has
\* no such column (lines 56-58), and otherwise the table is returned.
RetrieveCentiles ==
    /\ pc = "retrieve_centiles"
    /\ \E ok \in BOOLEAN :
          IF ~ok
          THEN /\ pc' = "exit"
               /\ UNCHANGED <<df_scores, df_scores_upd>>
          ELSE IF ~has_DQSCORE(df_scores)
          THEN /\ pc' = "raised"
               /\ UNCHANGED <<df_scores, df_scores_upd>>
          ELSE \E sorted \in sort_values_SCORE(df_roc_temp(df_roc) \o df_scores_temp(df_scores)) :
                  /\ pc' = "centiles_returned"
                  /\ df_scores_upd' = interpolate_bfill_ffill(merge_roc(sorted, df_roc))
                  /\ df_scores' = select_scorefile(df_scores_upd')
    /\ UNCHANGED <<df_roc, applyVars, fixVars, dosageVars, df_rdq, df_geno,
                   sc_int, df_sc_int, sc_dq_plink, df_sc_plink_calc, df_sc_dq_plink_calc,
                   read_ok, fileVars, runVars>>

NextCentiles == RetrieveCentiles

SpecCentiles == InitCentiles /\ [][NextCentiles]_vars

\* The line of the curve with the lowest, the highest threshold.
LowestRow(roc) ==
    roc[CHOOSE k \in 1..Len(roc) : \A j \in 1..Len(roc) : roc[k].threshold <= roc[j].threshold]
HighestRow(roc) ==
    roc[CHOOSE k \in 1..Len(roc) : \A j \in 1..Len(roc) : roc[j].threshold <= roc[k].threshold]

\* Line r of the returned table carries the three metrics of line m of the curve.
SameMetrics(r, m) ==
    /\ r.CTRLCENTILE = m.CTRLCENTILE
    /\ r.CASECENTILE = m.CASECENTILE
    /\ r.PPV = m.PPV

Distance(a, b) == IF a < b THEN b - a ELSE a - b

\* C12: every individual whose SCORE is below the lowest threshold of the
\* curve is returned with exactly the CTRLCENTILE, CASECENTILE and PPV of the
\* lowest line of the curve, and every individual whose SCORE is above the
\* highest threshold with those of the highest line, however many they are.
C12_OutsideRangeTakesEndRow ==
    pc = "centiles_returned" =>
        \A k \in 1..Len(df_scores) :
            /\ df_scores[k].SCORE < LowestRow(df_roc).threshold
                  => SameMetrics(df_scores[k], LowestRow(df_roc))
            /\ df_scores[k].SCORE > HighestRow(df_roc).threshold
                  => SameMetrics(df_scores[k], HighestRow(df_roc))

\* Two individuals below the lowest threshold and one above the highest of a
\* curve of several lines have been given their metrics.
C12_Witness ==
    /\ pc = "centiles_returned"
    /\ Len(df_roc) >= 2
    /\ Len(df_scores) = 3
    /\ df_scores[1].SCORE < LowestRow(df_roc).threshold
    /\ df_scores[2].SCORE < LowestRow(df_roc).threshold
    /\ df_scores[3].SCORE > HighestRow(df_roc).threshold
    /\ df_scores[1].PPV # df_scores[3].PPV

\* C13: every individual whose SCORE lies within the range of the curve (and
\* here, is the threshold of no line) is returned with the metrics of a line
\* of the curve whose threshold is nearest in value to the SCORE.
C13_NearestThresholdInValue ==
    pc = "centiles_returned" =>
        \A k \in 1..Len(df_scores) :
            LET r == df_scores[k]
            IN  (/\ LowestRow(df_roc).threshold < r.SCORE
                 /\ r.SCORE < HighestRow(df_roc).threshold
                 /\ \A j \in 1..Len(df_roc) : df_roc[j].threshold # r.SCORE)
                => \E j \in 1..Len(df_roc) :
                      /\ SameMetrics(r, df_roc[j])
                      /\ \A i \in 1..Len(df_roc) :
                            Distance(df_roc[j].threshold, r.SCORE)
                                <= Distance(df_roc[i].threshold, r.SCORE)

\* C14: the individuals' lines of the interpolated table carry the threshold
\* and the metrics of one line of the curve, and of two individuals with
\* SCORE a < SCORE b the line given to a has a threshold less than or equal
\* to that of the line given to b.
C14_NoInversion ==
    pc = "centiles_returned" =>
        \A a, b \in 1..Len(df_scores_upd) :
            LET ra == df_scores_upd[a]
                rb == df_scores_upd[b]
            IN  (ra.SOURCE = "SCOREFILE" /\ rb.SOURCE = "SCOREFILE") =>
                  /\ \E j \in 1..Len(df_roc) :
                        df_roc[j].threshold = ra.threshold /\ SameMetrics(ra, df_roc[j])
                  /\ \E i \in 1..Len(df_scores) :
                        /\ df_scores[i].FID = ra.FID /\ df_scores[i].IID = ra.IID
                        /\ df_scores[i].SCORE = ra.SCORE /\ SameMetrics(df_scores[i], ra)
                  /\ ra.SCORE < rb.SCORE => ra.threshold <= rb.threshold

\* Two individuals between the same two lines of the curve have been given
\* different lines, the lower SCORE the lower threshold.
C14_Witness ==
    /\ pc = "centiles_returned"
    /\ \E a, b \in 1..Len(df_scores_upd) :
          /\ df_scores_upd[a].SOURCE = "SCOREFILE" /\ df_scores_upd[b].SOURCE = "SCOREFILE"
          /\ df_scores_upd[a].SCORE < df_scores_upd[b].SCORE
          /\ df_scores_upd[a].threshold < df_scores_upd[b].threshold
          /\ \A j \in 1..Len(df_roc) :
                ~(df_scores_upd[a].SCORE < df_roc[j].threshold
                    /\ df_roc[j].threshold < df_scores_upd[b].SCORE)
          /\ df_scores_upd[a].threshold < df_scores_upd[a].SCORE
          /\ df_scores_upd[b].SCORE < df_scores_upd[b].threshold

\* C21: the metrics are a function of the SCORE: two individuals of one
\* returned table with equal SCOREs carry the same CTRLCENTILE, CASECENTILE
\* and PPV, and an individual whose SCORE is the threshold of a line of the
\* curve carries the metrics of that line, however many individuals share the
\* SCORE and in whatever order the sort has put them.
C21_MetricsFunctionOfScore ==
    pc = "centiles_returned" =>
        /\ \A a, b \in 1..Len(df_scores) :
              df_scores[a].SCORE = df_scores[b].SCORE
                  => SameMetrics(df_scores[a], df_scores[b])
        /\ \A k \in 1..Len(df_scores) : \A j \in 1..Len(df_roc) :
              df_scores[k].SCORE = df_roc[j].threshold
                  => SameMetrics(df_scores[k], df_roc[j])

(***************************************************************************)
(* delete_files_within (common.py)                                         *)
(*                                                                         *)
(* A path is the sequence of its parts, the separator "/" being a part, so *)
(* that "pattern in file" of the code is "pattern is a run of parts of     *)
(* file".  A file is a path with its data; the directories are those of    *)
(* the paths.                                                              *)
(***************************************************************************)
\* Bound: the longest pattern drawn, in parts.
MaxPatternLen == 2

\* Python's s in t.
Contains(s, t) ==
    \E i \in 0..(Len(t) - Len(s)) : SubSeq(t, i + 1, i + Len(s)) = s

\* os.walk(dirp) yields the file of path t: t is dirp, "/" and more.
Under(dirp, t) ==
    /\ Len(t) > Len(dirp) + 1
    /\ SubSeq(t, 1, Len(dirp)) = dirp
    /\ t[Len(dirp) + 1] = "/"

\* The mutation of os_walk that does not descend into the directories of dirp.
os_walk_top(files, dirp) ==
    {f \in files : Under(dirp, f.path) /\ Len(f.path) = Len(dirp) + 2}

\* Lines 47-49: the files os.walk(dirp) yields, at any depth.
os_walk(files, dirp) == {f \in files : Under(dirp, f.path)}

\* Lines 50-54: the file is removed.
removed(f, pat) == pat = None \/ Contains(pat, f.path)

\* Lines 47-54, the files left by delete_files_within(dirp, pat).
delete_files_within(files, dirp, pat) ==
    files \ {f \in os_walk(files, dirp) : removed(f, pat)}

\* The files a test directory may hold: two in d, two in its directory s,
\* one beside d.
TestFiles ==
    {[path |-> <<"d", "/", "x">>, data |-> 1],
     [path |-> <<"d", "/", "y">>, data |-> 2],
     [path |-> <<"d", "/", "s", "/", "x">>, data |-> 3],
     [path |-> <<"d", "/", "s", "/", "y">>, data |-> 4],
     [path |-> <<"e", "/", "x">>, data |-> 5]}

PathParts == {"d", "s", "e", "/", "x", "y"}

Patterns == {None} \cup UNION {[1..n -> PathParts] : n \in 1..MaxPatternLen}

InitDelete ==
    /\ pc = "delete_files_within"
    /\ disk \in SUBSET TestFiles
    /\ dirpath \in {<<"d">>, <<"d", "/", "s">>, <<"e">>}
    /\ pattern \in Patterns
    /\ walked = {}
    /\ row = Unused /\ A1 = Unused
    /\ df_map = Unused /\ df_freq = Unused /\ df_rdq = Unused /\ df_vmap = Unused
    /\ qscore_profiles = Unused /\ df_dosage = Unused /\ df_geno = Unused
    /\ sc_int = Unused /\ df_sc_int = Unused /\ sc_dq_plink = Unused
    /\ df_sc_plink_calc = Unused /\ df_sc_dq_plink_calc = Unused /\ df_scores = Unused
    /\ read_ok = Unused /\ df_roc = Unused /\ df_scores_upd = Unused
    /\ runs = Unused

\* delete_files_within: it returns with the files removed, or an os.remove
\* raises after some of them were removed and the process exits (lines 55-58).
DeleteFilesWithin ==
    /\ pc = "delete_files_within"
    /\ walked' = os_walk(disk, dirpath)
    /\ \/ /\ disk' = delete_files_within(disk, dirpath, pattern)
          /\ pc' = "deleted"
       \/ /\ \E gone \in SUBSET {f \in os_walk(disk, dirpath) : removed(f, pattern)} :
                /\ gone # {f \in os_walk(disk, dirpath) : removed(f, pattern)}
                /\ disk' = disk \ gone
          /\ pc' = "exit"
    /\ UNCHANGED <<dirpath, pattern, applyVars, fixVars, dosageVars, df_rdq, df_geno,
                   grsVars, metricsVars, runVars>>

NextDelete == DeleteFilesWithin

SpecDelete == InitDelete /\ [][NextDelete]_vars

\* C19: after delete_files_within(dirpath, pattern) has returned, no file
\* whose path contains pattern is left anywhere under dirpath, and every file
\* that was under dirpath and whose path does not contain pattern is still
\* there with its data.
C19_DeletesMatchingFilesOnly ==
    pc = "deleted" /\ pattern # None =>
        /\ \A f \in disk : Under(dirpath, f.path) => ~Contains(pattern, f.path)
        /\ \A f \in walked : ~Contains(pattern, f.path) => f \in disk

\* A file two directories down was removed and a file beside it was kept.
C19_Witness ==
    /\ pc = "deleted"
    /\ dirpath = <<"d">>
    /\ pattern = <<"/", "x">>
    /\ [path |-> <<"d", "/", "s", "/", "x">>, data |-> 3] \in walked \ disk
    /\ [path |-> <<"d", "/", "s", "/", "y">>, data |-> 4] \in walked \cap disk
    /\ [path |-> <<"e", "/", "x">>, data |-> 5] \in disk

(***************************************************************************)
(* main (__main__.py): pipeline runs that share an output directory        *)
(*                                                                         *)
(* The data of a file is the number of the run that wrote it.  Of PLINK's  *)
(* outputs only those the code reads are kept (.frq, .profile); its .log   *)
(* has the same prefix and the same fate.                                  *)
(***************************************************************************)
RunIds == {1, 2}

\* os.path.dirname(ofile) of the runs, and the os.path.basename(ofile) drawn.
ofile_dir == <<"d">>
OutputNames == {<<"a">>, <<"a", "b">>, <<"b">>}

\* score.py:127, 187, 351: f"{ofile_dir}/temp_{ofile_name}".
temp_path(ofile_name) == ofile_dir \o <<"/", "temp_">> \o ofile_name

\* The temporary files of a run: PLINK's frequency report, the three inputs
\* of PLINK's --score --q-score-range, and the profile of the range rs1.
frq_file(ofile_name) == temp_path(ofile_name) \o <<".", "frq">>
scores_files(ofile_name) ==
    {temp_path(ofile_name) \o <<".", ext>> : ext \in {"scores", "rngqty", "rngbound"}}
profile_file(ofile_name) == temp_path(ofile_name) \o <<".", "rs1", ".", "profile">>

\* __main__.py:47, 56, 90: the final output tables of a run.
dosage_file(ofile_name) == ofile_dir \o <<"/">> \o ofile_name \o <<"_dosage.tsv">>
geno_file(ofile_name) == ofile_dir \o <<"/">> \o ofile_name \o <<"_DQ_calls.tsv">>
results_file(ofile_name) == ofile_dir \o <<"/">> \o ofile_name \o <<"_RESULTS.tsv">>

\* Writing data to the file of path t, which replaces the file if there is one.
write(files, t, data) ==
    {f \in files : f.path # t} \cup {[path |-> t, data |-> data]}

\* score.py:220, 225: re.search of f"{temp_path}\.(\S+)\.profile$" in the path
\* t finds a match (temp_path holding no character special to re).
qscore_match(tp, t) ==
    /\ Len(t) >= 2 /\ SubSeq(t, Len(t) - 1, Len(t)) = <<".", "profile">>
    /\ \E i \in 0..(Len(t) - Len(tp) - 4) :
          SubSeq(t, i + 1, i + Len(tp) + 1) = tp \o <<".">>

\* score.py:228: m.group(1) of the first match.
qscore_group(tp, t) ==
    LET i == Min({j \in 0..(Len(t) - Len(tp) - 4) :
                    SubSeq(t, j + 1, j + Len(tp) + 1) = tp \o <<".">>})
    IN  SubSeq(t, i + Len(tp) + 2, Len(t) - 2)

\* The outcomes of a PLINK call, and the non-zero return codes drawn.
ShellResults == {"ok", "nonzero", "timeout"}
ReturnCodes == {1, 2}

\* The mutation of run_shell_cmd that returns when the call times out.
run_shell_cmd_timeout_returns(result) ==
    IF result = "nonzero" THEN "SystemExit" ELSE "returned"

\* common.py:25-33: run_shell_cmd returns, calls _exit(e.returncode) on
\* CalledProcessError, and lets the TimeoutExpired of _run(timeout=300) through.
run_shell_cmd(result) ==
    IF result = "ok" THEN "returned"
    ELSE IF result = "nonzero" THEN "SystemExit"
    ELSE "TimeoutExpired"

\* __main__.py:143-155: the exit status of the process when main raises:
\* that of a SystemExit, 1 for an Exception.
exit_status(raised, code) == IF raised = "SystemExit" THEN code ELSE 1

\* The run after a stage raised, and after a stage went on to the stage next.
terminated(run, status) == [run EXCEPT !.pc = "terminated", !.status = status]
goto(run, next) == [run EXCEPT !.pc = next]

\* The run after a call of run_shell_cmd with the given outcome.
after_shell(run, result, code, next) ==
    LET called == [run EXCEPT !.calls = @ + 1,
                              !.failed = IF result = "ok" THEN @ ELSE result,
                              !.failed_at = IF result = "ok" THEN @ ELSE run.calls + 1]
    IN  IF run_shell_cmd(result) = "returned"
        THEN goto(called, next)
        ELSE terminated(called, exit_status(run_shell_cmd(result), code))

InitRuns ==
    /\ pc = "main"
    /\ disk = {}
    /\ \E names \in [RunIds -> OutputNames] :
          runs = [r \in RunIds |->
                    [pc |-> "fix_variant_alleles", ofile_name |-> names[r],
                     status |-> 0, calls |-> 0, failed |-> "none", failed_at |-> 0,
                     df_freq |-> 0, profiles |-> {}, overwrote |-> {}, deleted |-> {}]]
    /\ dirpath = Unused /\ pattern = Unused /\ walked = Unused
    /\ row = Unused /\ A1 = Unused
    /\ df_map = Unused /\ df_freq = Unused /\ df_rdq = Unused /\ df_vmap = Unused
    /\ qscore_profiles = Unused /\ df_dosage = Unused /\ df_geno = Unused
    /\ sc_int = Unused /\ df_sc_int = Unused /\ sc_dq_plink = Unused
    /\ df_sc_plink_calc = Unused /\ df_sc_dq_plink_calc = Unused /\ df_scores = Unused
    /\ read_ok = Unused /\ df_roc = Unused /\ df_scores_upd = Unused

\* What the actions of a run leave alone.
runFrame ==
    UNCHANGED <<pc, dirpath, pattern, walked, applyVars, fixVars, dosageVars, df_rdq,
                df_geno, grsVars, metricsVars>>

\* The writers of the files of the given paths, which a write replaces.
replaced(files, paths) == {f.data : f \in {g \in files : g.path \in paths}}

\* fix_variant_alleles, score.py:125-129: the PLINK --freq call, which writes
\* the report when it succeeds.
PlinkFreq(r) ==
    /\ runs[r].pc = "fix_variant_alleles"
    /\ \E result \in ShellResults, code \in ReturnCodes :
          LET report == frq_file(runs[r].ofile_name)
              called == after_shell(runs[r], result, code, "read_freq")
          IN  IF result = "ok"
              THEN /\ disk' = write(disk, report, r)
                   /\ runs' = [runs EXCEPT ![r] =
                         [called EXCEPT !.overwrote = @ \cup replaced(disk, {report})]]
              ELSE /\ disk' = disk
                   /\ runs' = [runs EXCEPT ![r] = called]
    /\ runFrame

\* fix_variant_alleles, score.py:130-163: the ranking file, the report and
\* the mapping file are read; the process exits when one cannot be.
ReadFreq(r) ==
    /\ runs[r].pc = "read_freq"
    /\ LET report == {f \in disk : f.path = frq_file(runs[r].ofile_name)}
       IN  \E ok \in BOOLEAN :
              runs' = [runs EXCEPT ![r] =
                         IF ~ok \/ report = {}
                         THEN terminated(@, 1)
                         ELSE goto([@ EXCEPT !.df_freq = (CHOOSE f \in report : TRUE).data],
                                   "create_dosage_table")]
    /\ UNCHANGED disk
    /\ runFrame

\* create_dosage_table, score.py:185-219: the inputs of PLINK are written
\* (the process exits when they cannot be), then the PLINK --score call,
\* which writes the profile when it succeeds.
PlinkScore(r) ==
    /\ runs[r].pc = "create_dosage_table"
    /\ \/ /\ runs' = [runs EXCEPT ![r] = terminated(@, 1)]
          /\ UNCHANGED disk
       \/ \E result \in ShellResults, code \in ReturnCodes :
             LET inputs == scores_files(runs[r].ofile_name)
                 profile == profile_file(runs[r].ofile_name)
                 paths == IF result = "ok" THEN inputs \cup {profile} ELSE inputs
                 called == after_shell(runs[r], result, code, "collect_profiles")
             IN  /\ disk' = {f \in disk : f.path \notin paths}
                                \cup {[path |-> t, data |-> r] : t \in paths}
                 /\ runs' = [runs EXCEPT ![r] =
                       [called EXCEPT !.overwrote = @ \cup replaced(disk, paths)]]
    /\ runFrame

\* create_dosage_table, score.py:220-273: the profiles under ofile_dir that
\* match the run's temp_path are read as its dosage and the files whose path
\* contains temp_path are deleted.  .item() raises for a profile of a range
\* that is no SNP of the mapping, line 269 raises when no profile was found,
\* and the process exits when a profile cannot be read.
CollectProfiles(r) ==
    /\ runs[r].pc = "collect_profiles"
    /\ LET tp == temp_path(runs[r].ofile_name)
           matched == {f \in os_walk(disk, ofile_dir) : qscore_match(tp, f.path)}
           left == delete_files_within(disk, ofile_dir, tp)
       IN  \E ok \in BOOLEAN :
              IF ~ok \/ matched = {} \/ \E f \in matched : qscore_group(tp, f.path) # <<"rs1">>
              THEN /\ runs' = [runs EXCEPT ![r] = terminated(@, 1)]
                   /\ UNCHANGED disk
              ELSE /\ runs' = [runs EXCEPT ![r] =
                                 goto([@ EXCEPT !.profiles = {f.data : f \in matched},
                                                !.deleted = {f.data : f \in disk \ left}],
                                      "write_dosage")]
                   /\ disk' = left
    /\ runFrame

\* main, __main__.py:46-51: the dosage table is written (the write is taken
\* to succeed).
WriteDosage(r) ==
    /\ runs[r].pc = "write_dosage"
    /\ runs' = [runs EXCEPT ![r] = goto(@, "get_geno_call_alleles")]
    /\ disk' = write(disk, dosage_file(runs[r].ofile_name), r)
    /\ runFrame

\* main, __main__.py:52-60: the genotype calls are made and written (the
\* write is taken to succeed).
WriteGenoCalls(r) ==
    /\ runs[r].pc = "get_geno_call_alleles"
    /\ runs' = [runs EXCEPT ![r] = goto(@, "generate_grs")]
    /\ disk' = write(disk, geno_file(runs[r].ofile_name), r)
    /\ runFrame

\* main, __main__.py:61-71: generate_grs is called with the keywords
\* sc_plink_all and sc_plink_hla, which it does not have (score.py:311-319):
\* the call raises TypeError and the process exits with status 1
\* (__main__.py:152-155).  Lines 72-94 of main are never reached.
CallGenerateGrs(r) ==
    /\ runs[r].pc = "generate_grs"
    /\ runs' = [runs EXCEPT ![r] = terminated(@, exit_status("TypeError", 0))]
    /\ UNCHANGED disk
    /\ runFrame

NextRuns ==
    \E r \in RunIds :
        \/ PlinkFreq(r)
        \/ ReadFreq(r)
        \/ PlinkScore(r)
        \/ CollectProfiles(r)
        \/ WriteDosage(r)
        \/ WriteGenoCalls(r)
        \/ CallGenerateGrs(r)

SpecRuns == InitRuns /\ [][NextRuns]_vars

\* The final output tables that run r wrote and that are on the disk.
FinalOutputs(r) ==
    {f \in disk :
        /\ f.data = r
        /\ f.path \in {dosage_file(runs[r].ofile_name), geno_file(runs[r].ofile_name),
                        results_file(runs[r].ofile_name)}}

\* The files on the disk whose path contains the temp_path of run r.
TempFiles(r) == {f \in disk : Contains(temp_path(runs[r].ofile_name), f.path)}

\* C15: a run that has terminated in error (exit status not 0) has none of
\* its final output tables (dosage, genotype calls, results) on the disk.
C15_NoOutputAfterFailure ==
    \A r \in RunIds :
        (runs[r].pc = "terminated" /\ runs[r].status # 0) => FinalOutputs(r) = {}

\* C16: when a run has terminated, with or without error, no temporary file
\* that it wrote under its temp_path is left on the disk.
C16_NoTempFileAtTermination ==
    \A r \in RunIds :
        runs[r].pc = "terminated" => \A f \in TempFiles(r) : f.data # r

\* C17: the temp_path of a run is its own: the frequency report and the
\* profiles a run has read are those its own PLINK calls wrote, and the files
\* that its writes have replaced and that its cleanup has deleted were
\* written by the run itself, never by the other run.
C17_TempPrefixIsOwn ==
    \A r \in RunIds :
        /\ runs[r].df_freq \in {0, r}
        /\ runs[r].profiles \subseteq {r}
        /\ runs[r].overwrote \subseteq {r}
        /\ runs[r].deleted \subseteq {r}

\* C18: a run one of whose PLINK calls exited non-zero or timed out has
\* terminated with an exit status that is not 0, and that call was its last:
\* no later stage ran and PLINK was not called again.
C18_CollaboratorFailureAborts ==
    \A r \in RunIds :
        runs[r].failed # "none" =>
            /\ runs[r].pc = "terminated"
            /\ runs[r].status # 0
            /\ runs[r].calls = runs[r].failed_at

\* The second PLINK call of run 1 has timed out, after run 2 terminated on a
\* non-zero exit of its first.
C18_Witness ==
    /\ runs[1].failed = "timeout" /\ runs[1].calls = 2 /\ runs[1].status = 1
    /\ runs[2].failed = "nonzero" /\ runs[2].calls = 1 /\ runs[2].status = 2
    /\ runs[1].pc = "terminated" /\ runs[2].pc = "terminated"

(***************************************************************************)
(* generate_grs: rank-ordering a rank-ordered interaction table            *)
(***************************************************************************)
InitCanon ==
    /\ pc = "rank_order"
    /\ df_rdq \in RankingFiles
    /\ sc_int \in InteractionFiles
    /\ df_sc_int = Unused /\ df_geno = Unused /\ sc_dq_plink = Unused
    /\ df_sc_plink_calc = Unused /\ df_sc_dq_plink_calc = Unused /\ df_scores = Unused
    /\ read_ok = Unused /\ df_roc = Unused /\ df_scores_upd = Unused
    /\ disk = Unused /\ dirpath = Unused /\ pattern = Unused /\ walked = Unused
    /\ runs = Unused
    /\ row = Unused /\ A1 = Unused
    /\ df_map = Unused /\ df_freq = Unused /\ df_vmap = Unused
    /\ qscore_profiles = Unused /\ df_dosage = Unused

\* score.py:379-409 on the lines of the interaction file; .astype(int)
\* raises when an allele has no rank.
RankOrder ==
    /\ pc = "rank_order"
    /\ IF rank_has_nan(merge_long_rank(melt(sc_int), df_rdq))
       THEN pc' = "raised" /\ UNCHANGED <<sc_int, df_sc_int>>
       ELSE /\ pc' = "rank_ordered_once"
            /\ df_sc_int' = rank_order_interactions(sc_int, df_rdq)
            /\ UNCHANGED sc_int
    /\ UNCHANGED <<sc_dq_plink, df_sc_plink_calc, df_sc_dq_plink_calc, df_scores,
                   read_ok, df_rdq, df_geno, applyVars, fixVars, dosageVars,
                   metricsVars, fileVars, runVars>>

\* score.py:379-409 once more, the rank-ordered table being the lines given.
RankOrderAgain ==
    /\ pc = "rank_ordered_once"
    /\ pc' = "rank_ordered_twice"
    /\ sc_int' = df_sc_int
    /\ df_sc_int' = rank_order_interactions(df_sc_int, df_rdq)
    /\ UNCHANGED <<sc_dq_plink, df_sc_plink_calc, df_sc_dq_plink_calc, df_scores,
                   read_ok, df_rdq, df_geno, applyVars, fixVars, dosageVars,
                   metricsVars, fileVars, runVars>>

NextCanon == RankOrder \/ RankOrderAgain

SpecCanon == InitCanon /\ [][NextCanon]_vars

\* The line gives the allele of smaller rank first.
IsCanonical(line, rdq) == rank_of(rdq, line.ALLELE1) < rank_of(rdq, line.ALLELE2)

\* C20: over a ranking file with unique ranks, rank-ordering returns a line
\* that is already canonical (first allele of smaller rank) as it is, and
\* rank-ordering a rank-ordered table returns it unchanged:
\* canon(canon(t)) = canon(t).
C20_RankOrderIdempotent ==
    UniqueRanks(df_rdq) =>
        /\ pc = "rank_ordered_once" =>
              \A k \in 1..Len(sc_int) :
                  IsCanonical(sc_int[k], df_rdq) => df_sc_int[k] = sc_int[k]
        /\ pc = "rank_ordered_twice" => df_sc_int = sc_int

\* A rank-ordered table of two lines, one of two different alleles and one
\* naming an allele twice, has been rank-ordered again.
C20_Witness ==
    /\ pc = "rank_ordered_twice"
    /\ UniqueRanks(df_rdq)
    /\ Len(sc_int) = 2
    /\ IsCanonical(sc_int[1], df_rdq)
    /\ sc_int[2].ALLELE1 = sc_int[2].ALLELE2
    /\ df_sc_int = sc_int

====
